---- MODULE Spec2Model ----
(***************************************************************************)
(* A model of the two Ansible modules of sar_facts:                        *)
(*   library/sar_facts.py  ("sar_facts": YYYY-MM-DD dates, 12-hour parser) *)
(*   library/sar_info.py   ("sar_info":  DD/MM/YYYY dates, marker parser)  *)
(* Python strings are TLA+ strings, handled with Len, SubSeq and \o.       *)
(* Spec      is main() of either module run against a file system and a    *)
(*           sar binary that are fixed when the module starts.             *)
(* ParseSpec is parse_sar_output() of either module run, line by line, on  *)
(*           every text of at most MaxLines lines drawn from LineSet.      *)
(***************************************************************************)
EXTENDS Integers, Sequences, FiniteSets, TLC

VARIABLES variant, params, fs, pc, date_list, idx, sar_file, collected_data,
          outcome, resolved, runs, output, lineno, pst, emitted, headers

vars == <<variant, params, fs, pc, date_list, idx, sar_file, collected_data,
          outcome, resolved, runs, output, lineno, pst, emitted, headers>>

\* Bounds of the model.
NumDays == 3
MaxLines == 3

\* Python's None (a value no input string of the model equals).
None == "<None>"

\* Truth value of an optional string: None and "" are false.
Truthy(s) == s # None /\ s # ""

\* ---------------------------------------------------------------- strings

CharAt(s, i) == SubSeq(s, i, i)

Min(S) == CHOOSE x \in S : \A y \in S : x <= y

DigitChars == "0123456789"

Digits == {"0", "1", "2", "3", "4", "5", "6", "7", "8", "9"}

IsDigit(c) == c \in Digits

DigitVal(c) == (CHOOSE i \in 1..10 : CharAt(DigitChars, i) = c) - 1

AllDigits(s) == \A i \in 1..Len(s) : IsDigit(CharAt(s, i))

\* int(s) for a string of digits
RECURSIVE StrToInt(_)
StrToInt(s) ==
    IF Len(s) = 0 THEN 0
    ELSE 10 * StrToInt(SubSeq(s, 1, Len(s) - 1)) + DigitVal(CharAt(s, Len(s)))

\* str(n) for n >= 0
RECURSIVE IntToStr(_)
IntToStr(n) ==
    IF n < 10 THEN CharAt(DigitChars, n + 1)
    ELSE IntToStr(n \div 10) \o CharAt(DigitChars, (n % 10) + 1)

\* "%02d" and "%04d"
RECURSIVE ZeroPad(_, _)
ZeroPad(s, width) == IF Len(s) >= width THEN s ELSE ZeroPad("0" \o s, width)

UpperChars == "ABCDEFGHIJKLMNOPQRSTUVWXYZ"
LowerChars == "abcdefghijklmnopqrstuvwxyz"

Letters == {CharAt(UpperChars, i) : i \in 1..26} \cup {CharAt(LowerChars, i) : i \in 1..26}

LowerOf == [c \in {CharAt(UpperChars, i) : i \in 1..26} |->
               CharAt(LowerChars, CHOOSE i \in 1..26 : CharAt(UpperChars, i) = c)]

ToLowerChar(c) == IF c \in DOMAIN LowerOf THEN LowerOf[c] ELSE c

\* \w of Python's re: letters, digits, underscore.
IsWordChar(c) == c \in Digits \/ c = "_" \/ c \in Letters

IsSpace(c) == c = " " \/ c = "\t"

\* The pieces of s, from position `from` on, between occurrences of sep.
RECURSIVE SplitFrom(_, _, _)
SplitFrom(s, sep, from) ==
    LET at == {i \in from..Len(s) : CharAt(s, i) = sep}
    IN IF at = {} THEN <<SubSeq(s, from, Len(s))>>
       ELSE <<SubSeq(s, from, Min(at) - 1)>> \o SplitFrom(s, sep, Min(at) + 1)

\* str.split(sep) for a one-character separator.
SplitOn(s, sep) == SplitFrom(s, sep, 1)

\* str.splitlines(): lines end at "\n"; a final newline opens no empty line.
splitlines(s) ==
    IF Len(s) = 0 THEN <<>>
    ELSE LET pieces == SplitOn(s, "\n")
         IN IF pieces[Len(pieces)] = "" THEN SubSeq(pieces, 1, Len(pieces) - 1)
            ELSE pieces

\* The maximal runs of non-whitespace of s from position `from` on.
RECURSIVE SplitWs(_, _)
SplitWs(s, from) ==
    LET starts == {i \in from..Len(s) : ~IsSpace(CharAt(s, i))}
    IN IF starts = {} THEN <<>>
       ELSE LET a == Min(starts)
                b == Min({j \in a..Len(s) : j = Len(s) \/ IsSpace(CharAt(s, j + 1))})
            IN <<SubSeq(s, a, b)>> \o SplitWs(s, b + 1)

\* str.split(): runs of whitespace separate the tokens, none of them empty.
split(line) == SplitWs(line, 1)

\* "\n".join(lines)
RECURSIVE JoinLines(_)
JoinLines(ls) ==
    IF Len(ls) = 0 THEN ""
    ELSE IF Len(ls) = 1 THEN ls[1]
    ELSE ls[1] \o "\n" \o JoinLines(Tail(ls))

Contains(seq, x) == \E i \in 1..Len(seq) : seq[i] = x

\* ------------------------------------------------------- calendar (datetime)

IsLeap(y) == (y % 4 = 0) /\ ((y % 100 # 0) \/ (y % 400 = 0))

DaysInMonth(y, m) ==
    IF m = 2 THEN (IF IsLeap(y) THEN 29 ELSE 28)
    ELSE IF m \in {4, 6, 9, 11} THEN 30 ELSE 31

RECURSIVE DaysBeforeMonth(_, _)
DaysBeforeMonth(y, m) ==
    IF m = 1 THEN 0 ELSE DaysBeforeMonth(y, m - 1) + DaysInMonth(y, m - 1)

DaysBeforeYear(y) ==
    (y - 1) * 365 + ((y - 1) \div 4) - ((y - 1) \div 100) + ((y - 1) \div 400)

\* date.toordinal(): 1 is 0001-01-01.
toordinal(d) == DaysBeforeYear(d.year) + DaysBeforeMonth(d.year, d.month) + d.day

\* date.fromordinal()
fromordinal(n) ==
    LET y == CHOOSE yy \in ((n \div 366) .. (n \div 365 + 1)) :
                 DaysBeforeYear(yy) < n /\ n <= DaysBeforeYear(yy + 1)
        r == n - DaysBeforeYear(y)
        m == CHOOSE mm \in 1..12 :
                 DaysBeforeMonth(y, mm) < r /\ r <= DaysBeforeMonth(y, mm) + DaysInMonth(y, mm)
    IN [year |-> y, month |-> m, day |-> r - DaysBeforeMonth(y, m)]

\* Results of calls that may raise: [exc |-> "" , val |-> v] or [exc |-> name].
Return(v) == [exc |-> "", val |-> v]
Raise(e) == [exc |-> e, val |-> None]

\* datetime.strptime(s, fmt) for fmt "%Y-%m-%d" or "%d/%m/%Y": %Y is four
\* digits, %m is 1..12 and %d is 1..31 in one or two digits, and the day must
\* exist in the month.  A non-string argument is a TypeError.
strptime(s, fmt) ==
    IF s = None THEN Raise("TypeError")
    ELSE
    LET f  == SplitOn(s, IF fmt = "%Y-%m-%d" THEN "-" ELSE "/")
        ys == IF fmt = "%Y-%m-%d" THEN f[1] ELSE f[3]
        ms == f[2]
        ds == IF fmt = "%Y-%m-%d" THEN f[3] ELSE f[1]
    IN IF /\ Len(f) = 3
          /\ Len(ys) = 4 /\ AllDigits(ys) /\ StrToInt(ys) >= 1
          /\ Len(ms) \in {1, 2} /\ AllDigits(ms) /\ StrToInt(ms) \in 1..12
          /\ Len(ds) \in {1, 2} /\ AllDigits(ds) /\ StrToInt(ds) >= 1
          /\ StrToInt(ds) <= DaysInMonth(StrToInt(ys), StrToInt(ms))
       THEN Return([year |-> StrToInt(ys), month |-> StrToInt(ms), day |-> StrToInt(ds)])
       ELSE Raise("ValueError")

\* datetime.strftime(fmt) for "%Y-%m-%d", "%d/%m/%Y" and "%d".
strftime(d, fmt) ==
    LET Y == ZeroPad(IntToStr(d.year), 4)
        m == ZeroPad(IntToStr(d.month), 2)
        dd == ZeroPad(IntToStr(d.day), 2)
    IN IF fmt = "%Y-%m-%d" THEN Y \o "-" \o m \o "-" \o dd
       ELSE IF fmt = "%d/%m/%Y" THEN dd \o "/" \o m \o "/" \o Y
       ELSE dd

\* date + timedelta(days=i)
AddDays(d, i) == fromordinal(toordinal(d) + i)

\* ------------------------------------------------------------ the parsers

\* The parser's loop state: the header (NoHeader is Python's None), the
\* records appended so far, and the exception that ended the loop, if any.
NoHeader == <<>>

\* data_entry[key] = value
DictSet(d, key, value) ==
    [k \in (DOMAIN d) \cup {key} |-> IF k = key THEN value ELSE d[k]]

\* data_entry = {"date": date_str, "time": t}, then
\* data_entry[header[i]] = parts[i] for i = 1 .. min(len(header), len(parts)) - 1
\* (Python indices; j below is i + 1).
RECURSIVE FillEntry(_, _, _, _)
FillEntry(entry, hdr, parts, j) ==
    IF j > Len(hdr) \/ j > Len(parts) THEN entry
    ELSE FillEntry(DictSet(entry, hdr[j], parts[j]), hdr, parts, j + 1)

NewEntry(date_str, time_str) == [k \in {"date", "time"} |-> IF k = "date" THEN date_str ELSE time_str]

RECURSIVE ToLower(_)
ToLower(s) ==
    IF Len(s) = 0 THEN "" ELSE ToLowerChar(CharAt(s, 1)) \o ToLower(SubSeq(s, 2, Len(s)))

\* re.search(r'\b' + word + r'\b', line, flags=re.IGNORECASE)
WordSearch(word, line) ==
    \E i \in 1..(Len(line) - Len(word) + 1) :
        /\ (i = 1 \/ ~IsWordChar(CharAt(line, i - 1)))
        /\ (i + Len(word) - 1 = Len(line) \/ ~IsWordChar(CharAt(line, i + Len(word))))
        /\ ToLower(SubSeq(line, i, i + Len(word) - 1)) = word

\* re.search(r'\b(Linux|restart)\b', line, flags=re.IGNORECASE)
NoiseSearch(line) == WordSearch("linux", line) \/ WordSearch("restart", line)

\* re.match(r'^\d{1,2}:\d{2}:\d{2}$', token)
is_valid_time(token) ==
    LET f == SplitOn(token, ":")
    IN /\ Len(f) = 3
       /\ Len(f[1]) \in {1, 2} /\ AllDigits(f[1])
       /\ Len(f[2]) = 2 /\ AllDigits(f[2])
       /\ Len(f[3]) = 2 /\ AllDigits(f[3])

\* datetime.strptime(f"{time_str} {am_pm}", "%I:%M:%S %p").strftime("%H:%M:%S"):
\* %I is 1..12, %M is 0..59, %S is 0..59 (60 and 61 parse, and the datetime
\* constructor refuses them), in one or two digits each; %p is AM or PM.
convert_to_24h(time_str, am_pm) ==
    LET f == SplitOn(time_str, ":")
        Field(x) == Len(x) \in {1, 2} /\ AllDigits(x)
    IN IF /\ Len(f) = 3 /\ Field(f[1]) /\ Field(f[2]) /\ Field(f[3])
          /\ StrToInt(f[1]) \in 1..12 /\ StrToInt(f[2]) <= 59 /\ StrToInt(f[3]) <= 59
          /\ ToLower(am_pm) \in {"am", "pm"}
       THEN LET h12 == StrToInt(f[1]) % 12
                h24 == IF ToLower(am_pm) = "pm" THEN h12 + 12 ELSE h12
            IN Return(ZeroPad(IntToStr(h24), 2) \o ":" \o ZeroPad(IntToStr(StrToInt(f[2])), 2)
                      \o ":" \o ZeroPad(IntToStr(StrToInt(f[3])), 2))
       ELSE Raise("ValueError")

\* The first two tokens are a time and AM/PM.
facts_is_row(parts) ==
    Len(parts) >= 2 /\ is_valid_time(parts[1]) /\ parts[2] \in {"AM", "PM"}

\* One iteration of the loop of sar_facts.parse_sar_output over `line`.
\* st = [header, parsed_data, exc]; the result is the state after the line.
facts_parse_line(st, line, average, date_str) ==
    LET parts0 == split(line)
        is_avg == Len(parts0) > 0 /\ parts0[1] = "Average:"
        parts  == IF is_avg THEN Tail(parts0) ELSE parts0
    IN IF NoiseSearch(line) THEN st
       ELSE IF Len(parts0) = 0 THEN st
       ELSE IF is_avg /\ ~average THEN st
       ELSE IF st.header = NoHeader
            THEN (IF facts_is_row(parts) THEN [st EXCEPT !.header = parts] ELSE st)
       ELSE IF facts_is_row(parts)
            THEN LET converted == convert_to_24h(parts[1], parts[2])
                 IN IF converted.exc # "" THEN [st EXCEPT !.exc = converted.exc]
                    ELSE [st EXCEPT !.parsed_data =
                             Append(@, FillEntry(NewEntry(date_str, converted.val),
                                                 st.header, parts, 2))]
       ELSE st

\* The header tokens sar_info.parse_sar_output looks for, by sar_type.
info_markers(sar_type) ==
    CASE sar_type = "cpu"     -> {"%user", "%usr"}
      [] sar_type = "memory"  -> {"kbmemfree", "kbmemused"}
      [] sar_type = "swap"    -> {"kbswpfree", "kbswpused"}
      [] sar_type = "network" -> {"IFACE", "rxpck/s"}
      [] sar_type = "disk"    -> {"DEV", "tps"}
      [] sar_type = "load"    -> {"runq-sz", "plist-sz"}
      [] OTHER                -> {}

\* One iteration of the loop of sar_info.parse_sar_output over `line`.
info_parse_line(st, line, sar_type, average, date_str) ==
    LET parts  == split(line)
        is_avg == parts[1] = "Average:"
        time_str == IF is_avg THEN "Average" ELSE parts[1]
    IN IF Len(parts) = 0 THEN st
       ELSE IF \E i \in 1..Len(parts) : parts[i] \in info_markers(sar_type)
            THEN [st EXCEPT !.header = parts]
       ELSE IF st.header = NoHeader THEN st
       ELSE IF average /\ ~is_avg THEN st
       ELSE IF ~average /\ is_avg THEN st
       ELSE [st EXCEPT !.parsed_data =
                Append(@, FillEntry(NewEntry(date_str, time_str), st.header, parts, 2))]

\* One iteration of the loop of the variant's parser.
parse_line(v, st, line, sar_type, average, date_str) ==
    IF v = "sar_facts" THEN facts_parse_line(st, line, average, date_str)
    ELSE info_parse_line(st, line, sar_type, average, date_str)

InitialParse == [header |-> NoHeader, parsed_data |-> <<>>, exc |-> ""]

\* The loop over the lines; an exception ends it.
RECURSIVE ParseLoop(_, _, _, _, _, _)
ParseLoop(v, st, lines, sar_type, average, date_str) ==
    IF Len(lines) = 0 \/ st.exc # "" THEN st
    ELSE ParseLoop(v, parse_line(v, st, lines[1], sar_type, average, date_str),
                   Tail(lines), sar_type, average, date_str)

\* parse_sar_output(output, sar_type, average, date_str) of variant v:
\* Return(parsed_data), or the exception the loop ended in.
parse_sar_output(v, out, sar_type, average, date_str) ==
    LET st == ParseLoop(v, InitialParse, splitlines(out), sar_type, average, date_str)
    IN IF st.exc # "" THEN Raise(st.exc) ELSE Return(st.parsed_data)

\* ------------------------------------------- file system, binary, log file

SAR_LOG_PATHS == <<"/var/log/sa/", "/var/log/sysstat/">>
SAR_BIN_PATHS == <<"/usr/bin/sar", "/usr/sbin/sar", "/bin/sar">>

SAR_FACT_MAPPING ==
    [t \in {"cpu", "memory", "swap", "network", "disk", "load"} |->
        CASE t = "cpu" -> "sar_cpu" [] t = "memory" -> "sar_mem" [] t = "swap" -> "sar_swap"
          [] t = "network" -> "sar_net" [] t = "disk" -> "sar_disk" [] t = "load" -> "sar_load"]

\* os.path.exists(path): fs maps each existing path to what the file holds.
exists(path) == path \in DOMAIN fs

\* os.path.join(path, name)
join(path, name) ==
    IF CharAt(path, Len(path)) = "/" THEN path \o name ELSE path \o "/" \o name

\* The first element of `paths`, from index i on, that exists; else None.
RECURSIVE FirstExisting(_, _)
FirstExisting(paths, i) ==
    IF i > Len(paths) THEN None
    ELSE IF exists(paths[i]) THEN paths[i] ELSE FirstExisting(paths, i + 1)

locate_sar == FirstExisting(SAR_BIN_PATHS, 1)

\* find_sar_file(date_str) with the variant's date format: a ValueError of
\* strptime is caught and gives None; a TypeError (date_str is None) is not.
FindSarFile(date_str, fmt) ==
    LET date_obj == strptime(date_str, fmt)
    IN IF date_obj.exc = "ValueError" THEN Return(None)
       ELSE IF date_obj.exc # "" THEN Raise(date_obj.exc)
       ELSE LET day == strftime(date_obj.val, "%d")
            IN Return(FirstExisting([i \in 1..Len(SAR_LOG_PATHS) |->
                                        join(SAR_LOG_PATHS[i], "sa" \o day)], 1))

facts_find_sar_file(date_str) == FindSarFile(date_str, "%Y-%m-%d")

info_find_sar_file(date_str) == FindSarFile(date_str, "%d/%m/%Y")

find_sar_file(v, date_str) ==
    IF v = "sar_facts" THEN facts_find_sar_file(date_str) ELSE info_find_sar_file(date_str)

\* --------------------------------------------------- command and process

sar_flags(sar_type, partition) ==
    CASE sar_type = "cpu"     -> <<"-u">>
      [] sar_type = "memory"  -> <<"-r">>
      [] sar_type = "swap"    -> <<"-S">>
      [] sar_type = "network" -> <<"-n", "DEV">>
      [] sar_type = "disk"    -> IF partition THEN <<"-d", "-p">> ELSE <<"-d">>
      [] sar_type = "load"    -> <<"-q">>
      [] OTHER                -> <<>>

\* The argument list run_sar_command builds.
BuildCommand(sar_bin, file, sar_type, time_start, time_end, partition) ==
    <<sar_bin, "-f", file>> \o sar_flags(sar_type, partition)
        \o (IF Truthy(time_start) THEN <<"-s", time_start>> ELSE <<>>)
        \o (IF Truthy(time_end) THEN <<"-e", time_end>> ELSE <<>>)

\* What a log file can hold: a day of 12-hour samples, a day whose samples
\* carry an hour no 12-hour clock has, or bytes sar cannot read.
LogContents == {"day12", "hour13", "corrupt"}

\* The sar binary: its exit status and standard output for `command`, decided
\* by the log file named after -f and by the category flag.
SarProcess(command) ==
    LET content == fs[command[3]]
        cpu == Contains(command, "-u")
        hdr == IF cpu THEN "12:00:01 AM CPU %usr" ELSE "12:00:01 AM DEV tps"
        dev == IF cpu THEN "all" ELSE "sda"
    IN IF content = "corrupt" THEN [returncode |-> 1, stdout |-> ""]
       ELSE IF content = "hour13"
       THEN [returncode |-> 0,
             stdout |-> JoinLines(<<hdr, "13:00:00 PM " \o dev \o " 1.5">>) \o "\n"]
       ELSE [returncode |-> 0,
             stdout |-> JoinLines(<<"Linux 5.14.0 (host)", "", hdr,
                                    "02:30:15 PM " \o dev \o " 1.5",
                                    "Average: " \o dev \o " 1.2">>) \o "\n"]

\* run_sar_command with an except branch that reports nothing and returns no
\* records, so that the caller goes on to the next date.
run_sar_command_swallow(v, sar_bin, file, sar_type, time_start, time_end, partition, average, date_str) ==
    LET command == BuildCommand(sar_bin, file, sar_type, time_start, time_end, partition)
    IN IF sar_bin = None
       THEN [kind |-> "raise", exc |-> "TypeError", command |-> command,
             spawned |-> FALSE, returncode |-> 0]
       ELSE LET result == SarProcess(command)
            IN IF result.returncode # 0
               THEN [kind |-> "return", val |-> <<>>,
                     command |-> command, spawned |-> TRUE, returncode |-> result.returncode]
               ELSE LET parsed == parse_sar_output(v, result.stdout, sar_type, average, date_str)
                    IN IF parsed.exc # ""
                       THEN [kind |-> "raise", exc |-> parsed.exc, command |-> command,
                             spawned |-> TRUE, returncode |-> result.returncode]
                       ELSE [kind |-> "return", val |-> parsed.val, command |-> command,
                             spawned |-> TRUE, returncode |-> result.returncode]

\* run_sar_command of variant v.  The result is what happens to the caller:
\*   [kind |-> "return", val |-> records]   the parsed records
\*   [kind |-> "fail_json", msg |-> m]      module.fail_json ended the process
\*   [kind |-> "raise", exc |-> e]          an exception nobody catches
\* with the command, whether a process was started for it (none is when
\* sar_bin is None: subprocess.run raises TypeError) and its exit status.
run_sar_command(v, sar_bin, file, sar_type, time_start, time_end, partition, average, date_str) ==
    LET command == BuildCommand(sar_bin, file, sar_type, time_start, time_end, partition)
    IN IF sar_bin = None
       THEN [kind |-> "raise", exc |-> "TypeError", command |-> command,
             spawned |-> FALSE, returncode |-> 0]
       ELSE LET result == SarProcess(command)
            IN IF result.returncode # 0
               THEN [kind |-> "fail_json", msg |-> "Failed to execute SAR command: ",
                     command |-> command, spawned |-> TRUE, returncode |-> result.returncode]
               ELSE LET parsed == parse_sar_output(v, result.stdout, sar_type, average, date_str)
                    IN IF parsed.exc # ""
                       THEN [kind |-> "raise", exc |-> parsed.exc, command |-> command,
                             spawned |-> TRUE, returncode |-> result.returncode]
                       ELSE [kind |-> "return", val |-> parsed.val, command |-> command,
                             spawned |-> TRUE, returncode |-> result.returncode]

\* ------------------------------------------------------------------ main

\* [(start + timedelta(days=i)).strftime(fmt) for i in range(n)]
DateRange(start, n, fmt) == [k \in 1..n |-> strftime(AddDays(start, k - 1), fmt)]

\* Lines 196-207 of sar_facts.main: the list of dates, or how main ends.
facts_date_list(date_start, date_end) ==
    IF Truthy(date_start) /\ Truthy(date_end)
    THEN LET start_date == strptime(date_start, "%Y-%m-%d")
             end_date   == strptime(date_end, "%Y-%m-%d")
         IN IF start_date.exc # "" THEN [kind |-> "raise", exc |-> start_date.exc]
            ELSE IF end_date.exc # "" THEN [kind |-> "raise", exc |-> end_date.exc]
            ELSE LET delta == toordinal(end_date.val) - toordinal(start_date.val)
                 IN IF delta < 0
                    THEN [kind |-> "fail_json", msg |-> "date_end cannot be before date_start."]
                    ELSE [kind |-> "ok", val |-> DateRange(start_date.val, delta + 1, "%Y-%m-%d")]
    ELSE [kind |-> "ok", val |-> IF Truthy(date_start) THEN <<date_start>> ELSE <<>>]

\* Lines 254-257 of sar_info.main: the list the for statement iterates.  The
\* range() argument is evaluated first (date_end, then date_start).
info_date_list(date_start, date_end) ==
    IF date_start = date_end THEN [kind |-> "ok", val |-> <<date_start, date_end>>]
    ELSE LET end_date   == strptime(date_end, "%d/%m/%Y")
             start_date == strptime(date_start, "%d/%m/%Y")
         IN IF end_date.exc # "" THEN [kind |-> "raise", exc |-> end_date.exc]
            ELSE IF start_date.exc # "" THEN [kind |-> "raise", exc |-> start_date.exc]
            ELSE LET n == toordinal(end_date.val) - toordinal(start_date.val) + 1
                 IN [kind |-> "ok",
                     val |-> DateRange(start_date.val, IF n < 0 THEN 0 ELSE n, "%d/%m/%Y")]

main_date_list(v, date_start, date_end) ==
    IF v = "sar_facts" THEN facts_date_list(date_start, date_end)
    ELSE info_date_list(date_start, date_end)

\* module.exit_json(...) of either main.
facts_exit(sar_type, data) ==
    [kind |-> "exit_json",
     ansible_facts |-> [k \in {IF sar_type \in DOMAIN SAR_FACT_MAPPING
                               THEN SAR_FACT_MAPPING[sar_type]
                               ELSE "sar_" \o sar_type} |-> data]]

info_exit(sar_type, data) ==
    [kind |-> "exit_json", changed |-> FALSE,
     ansible_facts |-> [k \in {"sar_data"} |-> [t \in {sar_type} |-> data]]]

\* ------------------------------------------------------------ the inputs

Variants == {"sar_facts", "sar_info"}

DateFormat(v) == IF v = "sar_facts" THEN "%Y-%m-%d" ELSE "%d/%m/%Y"

\* The first of the NumDays consecutive days the inputs are drawn from; the
\* days cross the end of a month.
FirstDay == [year |-> 2025, month |-> 1, day |-> 31]

Days == [i \in 1..NumDays |-> AddDays(FirstDay, i - 1)]

\* date_start and date_end: absent, one of the days in the variant's format,
\* a day written without padding, or a day written in the other variant's format.
DateInputs(v) ==
    {None} \cup {strftime(Days[i], DateFormat(v)) : i \in 1..NumDays}
           \cup (IF v = "sar_facts" THEN {"2025-2-1", "01/02/2025"} ELSE {"1/2/2025", "2025-02-01"})

\* type, average, partition, time_start, time_end
Options ==
    { [sar_type |-> "cpu", average |-> FALSE, partition |-> FALSE,
       time_start |-> None, time_end |-> None],
      [sar_type |-> "disk", average |-> TRUE, partition |-> TRUE,
       time_start |-> "08:00:00", time_end |-> "12:00:00"] }

Params(v) ==
    { [date_start |-> ds, date_end |-> de, sar_type |-> o.sar_type, average |-> o.average,
       partition |-> o.partition, time_start |-> o.time_start, time_end |-> o.time_end] :
      ds \in DateInputs(v), de \in DateInputs(v), o \in Options }

\* The log file of day i, in the directories alternately.
LogPath(i) == join(SAR_LOG_PATHS[(i % 2) + 1], "sa" \o strftime(Days[i], "%d"))

\* The file systems: any of the days' log files, each holding any of the
\* contents, and the sar binary absent or at the second candidate path.
FileSystems ==
    { [p \in {LogPath(i) : i \in have} \cup bins |->
          IF p \in bins THEN "sar" ELSE logs[CHOOSE i \in have : LogPath(i) = p]] :
      have \in SUBSET (1..NumDays), logs \in [1..NumDays -> LogContents],
      bins \in {{}, {SAR_BIN_PATHS[2]}} }

NoFiles == [p \in {} |-> ""]

\* ------------------------------------------------------------ main, stepwise

Init ==
    /\ variant \in Variants
    /\ params \in Params(variant)
    /\ fs \in FileSystems
    /\ pc = "start"
    /\ date_list = <<>>
    /\ idx = 0
    /\ sar_file = None
    /\ collected_data = <<>>
    /\ outcome = [kind |-> "running"]
    /\ resolved = <<>>
    /\ runs = <<>>
    /\ output = ""
    /\ lineno = 0
    /\ pst = InitialParse
    /\ emitted = <<>>
    /\ headers = <<>>

ParserIdle == UNCHANGED <<output, lineno, pst, emitted, headers>>

\* main up to its loop: the parameters are read and the date list is built,
\* or main ends in fail_json or in an exception.
MainDates ==
    /\ pc = "start"
    /\ \E r \in {main_date_list(variant, params.date_start, params.date_end)} :
          IF r.kind = "ok"
          THEN /\ date_list' = r.val
               /\ pc' = "loop"
               /\ outcome' = outcome
          ELSE /\ date_list' = date_list
               /\ pc' = "done"
               /\ outcome' = IF r.kind = "fail_json"
                             THEN [kind |-> "fail_json", msg |-> r.msg]
                             ELSE [kind |-> "exception", exc |-> r.exc]
    /\ UNCHANGED <<variant, params, fs, idx, sar_file, collected_data, resolved, runs>>
    /\ ParserIdle

\* The head of one loop iteration: sar_file = find_sar_file(date); a date
\* with no file is passed over.
Resolve ==
    /\ pc = "loop"
    /\ idx < Len(date_list)
    /\ \E date \in {date_list[idx + 1]} : \E r \in {find_sar_file(variant, date)} :
          /\ resolved' = Append(resolved, date)
          /\ IF r.exc # ""
             THEN /\ pc' = "done"
                  /\ outcome' = [kind |-> "exception", exc |-> r.exc]
                  /\ UNCHANGED <<idx, sar_file>>
             ELSE IF Truthy(r.val)
             THEN /\ pc' = "run"
                  /\ sar_file' = r.val
                  /\ UNCHANGED <<idx, outcome>>
             ELSE /\ idx' = idx + 1
                  /\ UNCHANGED <<pc, sar_file, outcome>>
    /\ UNCHANGED <<variant, params, fs, date_list, collected_data, runs>>
    /\ ParserIdle

\* The body of one loop iteration:
\* collected_data.extend(run_sar_command(module, locate_sar(), sar_file, ...)).
Run ==
    /\ pc = "run"
    /\ \E date \in {date_list[idx + 1]} :
       \E r \in {run_sar_command(variant, locate_sar, sar_file, params.sar_type,
                                 params.time_start, params.time_end, params.partition,
                                 params.average, date)} :
          /\ runs' = Append(runs, [date |-> date, command |-> r.command,
                                   spawned |-> r.spawned, returncode |-> r.returncode])
          /\ IF r.kind = "return"
             THEN /\ collected_data' = collected_data \o r.val
                  /\ idx' = idx + 1
                  /\ pc' = "loop"
                  /\ outcome' = outcome
             ELSE /\ pc' = "done"
                  /\ outcome' = IF r.kind = "fail_json"
                                THEN [kind |-> "fail_json", msg |-> r.msg]
                                ELSE [kind |-> "exception", exc |-> r.exc]
                  /\ UNCHANGED <<collected_data, idx>>
    /\ sar_file' = None
    /\ UNCHANGED <<variant, params, fs, date_list, resolved>>
    /\ ParserIdle

\* After the loop: module.exit_json with the collected records.
ExitJson ==
    /\ pc = "loop"
    /\ idx = Len(date_list)
    /\ pc' = "done"
    /\ outcome' = IF variant = "sar_facts" THEN facts_exit(params.sar_type, collected_data)
                  ELSE info_exit(params.sar_type, collected_data)
    /\ UNCHANGED <<variant, params, fs, date_list, idx, sar_file, collected_data, resolved, runs>>
    /\ ParserIdle

Next == MainDates \/ Resolve \/ Run \/ ExitJson

Spec == Init /\ [][Next]_vars

\* ------------------------------------------------ parse_sar_output, stepwise

\* Lines of sar output: headers and rows of a 12-hour and of a 24-hour
\* locale, the Average: row, the banner, a restart marker, a row with an hour
\* no 12-hour clock has, a line that starts with no time, and an empty line.
LineSet ==
    { "12:00:01 AM CPU %usr",
      "00:00:01 CPU %usr %sys",
      "02:30:15 PM all 1.5",
      "14:30:15 all 1.5",
      "Average: all 1.2",
      "Linux 5.14.0 (host)",
      "10:00:00 AM LINUX RESTART",
      "13:00:00 PM all 1.5",
      "Summary: all 1.5",
      "" }

RECURSIVE LineSeqs(_)
LineSeqs(n) ==
    IF n = 0 THEN {<<>>}
    ELSE LineSeqs(n - 1) \cup {Append(ls, l) : ls \in {x \in LineSeqs(n - 1) : Len(x) = n - 1}, l \in LineSet}

Outputs == {JoinLines(ls) : ls \in LineSeqs(MaxLines)}

ParseParams(v) ==
    { [date_start |-> strftime(Days[1], DateFormat(v)), date_end |-> None,
       sar_type |-> t, average |-> a, partition |-> FALSE,
       time_start |-> None, time_end |-> None] : t \in {"cpu", "disk"}, a \in BOOLEAN }

ParseInit ==
    /\ variant \in Variants
    /\ params \in ParseParams(variant)
    /\ output \in Outputs
    /\ fs = NoFiles
    /\ pc = "parse"
    /\ date_list = <<>>
    /\ idx = 0
    /\ sar_file = None
    /\ collected_data = <<>>
    /\ outcome = [kind |-> "running"]
    /\ resolved = <<>>
    /\ runs = <<>>
    /\ lineno = 0
    /\ pst = InitialParse
    /\ emitted = <<>>
    /\ headers = <<>>

MainIdle ==
    UNCHANGED <<variant, params, fs, date_list, idx, sar_file, collected_data,
                outcome, resolved, runs, output>>

\* One iteration of `for line in output.splitlines()`.  emitted[k] is what
\* line k appended to the result and headers[k] the header after line k.
ParseLine ==
    /\ pc = "parse"
    /\ pst.exc = ""
    /\ lineno < Len(splitlines(output))
    /\ \E st \in {parse_line(variant, pst, splitlines(output)[lineno + 1],
                              params.sar_type, params.average, params.date_start)} :
          /\ pst' = st
          /\ emitted' = Append(emitted, SubSeq(st.parsed_data, Len(pst.parsed_data) + 1,
                                               Len(st.parsed_data)))
          /\ headers' = Append(headers, st.header)
    /\ lineno' = lineno + 1
    /\ pc' = pc
    /\ MainIdle

\* return parsed_data
ParseReturn ==
    /\ pc = "parse"
    /\ pst.exc = ""
    /\ lineno = Len(splitlines(output))
    /\ pc' = "returned"
    /\ UNCHANGED <<lineno, pst, emitted, headers>>
    /\ MainIdle

\* The exception of convert_to_24h leaves parse_sar_output.
ParseRaise ==
    /\ pc = "parse"
    /\ pst.exc # ""
    /\ pc' = "raised"
    /\ UNCHANGED <<lineno, pst, emitted, headers>>
    /\ MainIdle

ParseNext == ParseLine \/ ParseReturn \/ ParseRaise

ParseSpec == ParseInit /\ [][ParseNext]_vars

\* ------------------------------------------------------- properties of main

\* The date strings main was given, read with the variant's format.
WellFormed(d) == d # None /\ strptime(d, DateFormat(variant)).exc = ""

BothGiven == WellFormed(params.date_start) /\ WellFormed(params.date_end)

Ordinal(d) == toordinal(strptime(d, DateFormat(variant)).val)

StartOrdinal == Ordinal(params.date_start)
EndOrdinal == Ordinal(params.date_end)

IsPrefix(a, b) == Len(a) <= Len(b) /\ \A i \in 1..Len(a) : a[i] = b[i]

\* The records main returned.
ReturnedData ==
    IF variant = "sar_facts"
    THEN outcome.ansible_facts[CHOOSE k \in DOMAIN outcome.ansible_facts : TRUE]
    ELSE outcome.ansible_facts["sar_data"][params.sar_type]

FailedRuns == {i \in 1..Len(runs) : runs[i].spawned /\ runs[i].returncode # 0}

\* C1: with date_start <= date_end, both well-formed, the log file is resolved
\* for the dates date_start .. date_end, each once, in ascending order: at any
\* moment the resolved dates are the first so many days of the range, and they
\* are the whole range when main returns its result.
C1_ResolvesEachDateOfRangeOnce ==
    (BothGiven /\ StartOrdinal <= EndOrdinal) =>
        /\ Len(resolved) <= EndOrdinal - StartOrdinal + 1
        /\ \A i \in 1..Len(resolved) :
              WellFormed(resolved[i]) /\ Ordinal(resolved[i]) = StartOrdinal + i - 1
        /\ (outcome.kind = "exit_json" => Len(resolved) = EndOrdinal - StartOrdinal + 1)

\* C2: with date_end before date_start main ends in fail_json: no log file is
\* resolved, no command is run and no result is returned.
C2_ReversedRangeFails ==
    (BothGiven /\ EndOrdinal < StartOrdinal) =>
        /\ resolved = <<>>
        /\ runs = <<>>
        /\ outcome.kind \in {"running", "fail_json"}
        /\ (pc = "done" => outcome.kind = "fail_json")

\* The dates a request asks for: the days of the range, in the variant's
\* format, or the one date supplied.
RequestedDates ==
    IF params.date_start # None /\ params.date_end # None
    THEN DateRange(strptime(params.date_start, DateFormat(variant)).val,
                   EndOrdinal - StartOrdinal + 1, DateFormat(variant))
    ELSE IF params.date_start # None THEN <<params.date_start>>
    ELSE IF params.date_end # None THEN <<params.date_end>>
    ELSE <<>>

Resolvable(date) == Truthy(find_sar_file(variant, date).val)

\* The sar process of the command for the log file of `date`.
ProcessOf(date) ==
    SarProcess(BuildCommand(locate_sar, find_sar_file(variant, date).val, params.sar_type,
                            params.time_start, params.time_end, params.partition))

\* What the parser does with the output of that process.
ParserOutput(date) ==
    parse_sar_output(variant, ProcessOf(date).stdout, params.sar_type, params.average, date)

\* The command for `date` can be run, exits with status zero and is parsed.
Collectible(date) ==
    locate_sar # None /\ ProcessOf(date).returncode = 0 /\ ParserOutput(date).exc = ""

RECURSIVE ConcatResolved(_, _)
ConcatResolved(dates, i) ==
    IF i > Len(dates) THEN <<>>
    ELSE (IF Resolvable(dates[i]) THEN ParserOutput(dates[i]).val ELSE <<>>)
         \o ConcatResolved(dates, i + 1)

\* C3: the records main returns are those the parser gave for the requested
\* dates whose log file exists, each date once, in ascending date order.
C3_ReturnsRecordsInDateOrder ==
    ( /\ outcome.kind = "exit_json"
      /\ params.date_start # None => WellFormed(params.date_start)
      /\ params.date_end # None => WellFormed(params.date_end)
      /\ BothGiven => StartOrdinal <= EndOrdinal
      /\ \A i \in 1..Len(RequestedDates) :
            Resolvable(RequestedDates[i]) => Collectible(RequestedDates[i]) )
    => ReturnedData = ConcatResolved(RequestedDates, 1)

\* C4: a command that exits with a non-zero status ends main in fail_json:
\* it is the last command run, its date is the last one resolved, the loop
\* stands at that date, and no result is returned.
C4_NonZeroExitAborts ==
    \A i \in FailedRuns :
        /\ i = Len(runs)
        /\ pc = "done"
        /\ outcome.kind = "fail_json"
        /\ Len(resolved) = idx + 1
        /\ resolved[Len(resolved)] = runs[i].date
        /\ date_list[idx + 1] = runs[i].date

\* A command failed on a date that has later dates after it, when earlier
\* dates had already given records.
C4_Witness ==
    /\ FailedRuns # {}
    /\ outcome.kind = "fail_json"
    /\ collected_data # <<>>
    /\ idx + 1 < Len(date_list)

\* The one date supplied, when exactly one of date_start and date_end is.
ExactlyOneGiven ==
    /\ (params.date_start = None) # (params.date_end = None)
    /\ params.date_start # None => WellFormed(params.date_start)
    /\ params.date_end # None => WellFormed(params.date_end)

SuppliedDate == IF params.date_start # None THEN params.date_start ELSE params.date_end

\* C5: with exactly one of date_start and date_end supplied, main resolves
\* the log file of that date and of no other, and ends without an exception.
C5_SingleBoundQueriesThatDate ==
    ExactlyOneGiven =>
        /\ IsPrefix(resolved, <<SuppliedDate>>)
        /\ outcome.kind # "exception"
        /\ (pc = "done" => resolved = <<SuppliedDate>>)

\* ------------------------------------------ properties of parse_sar_output

Lines == splitlines(output)

Tokens(k) == split(Lines[k])

\* Line k holds the whole word Linux or restart, in any case.
IsNoise(k) == NoiseSearch(Lines[k])

\* Line k holds a header token of the requested category.
HasMarker(k) == \E i \in 1..Len(Tokens(k)) : Tokens(k)[i] \in info_markers(params.sar_type)

\* The first token of line k is Average:.
IsAverageRow(k) == Len(Tokens(k)) > 0 /\ Tokens(k)[1] = "Average:"

\* The first token of line k has the form hour:minute:second.
IsTimestamped(k) == Len(Tokens(k)) > 0 /\ is_valid_time(Tokens(k)[1])

\* The header line of the category comes before line k.
AfterHeader(k) == \E j \in 1..(k - 1) : HasMarker(j) /\ ~IsNoise(j)

\* C6: with average requested, a record comes only from an Average: line and
\* has the time "Average"; every Average: line after the header gives one
\* record, and no timestamped line gives any.
C6_AverageKeepsOnlyAverageRows ==
    params.average =>
        \A k \in 1..lineno :
            /\ emitted[k] # <<>> => IsAverageRow(k)
            /\ \A i \in 1..Len(emitted[k]) : emitted[k][i]["time"] = "Average"
            /\ (IsAverageRow(k) /\ AfterHeader(k) /\ ~IsNoise(k) /\ ~HasMarker(k))
                   => Len(emitted[k]) = 1
            /\ IsTimestamped(k) => emitted[k] = <<>>

\* C7: a line holding the word Linux or restart gives no record and does not
\* become the header, wherever it stands in the text.
C7_NoiseLinesLeaveNoTrace ==
    \A k \in 1..lineno :
        IsNoise(k) =>
            /\ emitted[k] = <<>>
            /\ headers[k] = (IF k = 1 THEN NoHeader ELSE headers[k - 1])

\* Line k is a row of samples that starts with a 24-hour time (no AM or PM
\* follows the time).
IsPlainRow(k) ==
    /\ IsTimestamped(k) /\ ~IsNoise(k) /\ ~HasMarker(k)
    /\ ~(Len(Tokens(k)) >= 2 /\ Tokens(k)[2] \in {"AM", "PM"})

\* The text is a header line of the category followed by such rows.
IsHeaderThenRows ==
    /\ Len(Lines) >= 1
    /\ HasMarker(1) /\ ~IsNoise(1)
    /\ \A k \in 2..Len(Lines) : IsPlainRow(k)

Smaller(a, b) == IF a < b THEN a ELSE b

\* C8: without average, a header line followed by n rows HH:MM:SS <tokens>
\* gives n records in the order of the rows: record k carries the date
\* unchanged, the time of row k, and the tokens of the row under the header's
\* column names, up to the shorter of the two.  (Stated for rows in 24-hour
\* form; a row with AM or PM is the twelve-hour dialect's, whose time is
\* converted.)
C8_HeaderThenRowsGivesOneRecordPerRow ==
    (~params.average /\ IsHeaderThenRows /\ pc # "parse") =>
        /\ pc = "returned"
        /\ Len(pst.parsed_data) = Len(Lines) - 1
        /\ \A k \in 1..Len(pst.parsed_data) :
              LET rec == pst.parsed_data[k]
                  n   == Smaller(Len(Tokens(1)), Len(Tokens(k + 1)))
              IN /\ DOMAIN rec = {"date", "time"} \cup {Tokens(1)[i] : i \in 2..n}
                 /\ rec["date"] = params.date_start
                 /\ rec["time"] = Tokens(k + 1)[1]
                 /\ \A i \in 2..n : rec[Tokens(1)[i]] = Tokens(k + 1)[i]

\* C9: the time of every record is "Average" or has the form
\* hour:minute:second, and a line after the header whose first token is
\* neither Average: nor of that form gives no record.  (Stated for the lines
\* that hold neither Linux nor restart, which C7 is about.)
C9_TimeIsValidated ==
    \A k \in 1..lineno :
        ~IsNoise(k) =>
            /\ \A i \in 1..Len(emitted[k]) :
                  emitted[k][i]["time"] = "Average" \/ is_valid_time(emitted[k][i]["time"])
            /\ (AfterHeader(k) /\ Len(Tokens(k)) > 0 /\ ~IsAverageRow(k) /\ ~IsTimestamped(k))
                   => emitted[k] = <<>>

\* C10: parsing never ends in an exception.
C10_ParsingNeverRaises == pst.exc = "" /\ pc # "raised"

====
